---- MODULE Spec2Model ----
(***************************************************************************)
(* Observer / Observable of src/index.ts.                                  *)
(*                                                                         *)
(* JavaScript runs one call stack.  The Observer's methods are modelled    *)
(* statement by statement; a method is interrupted only where it calls     *)
(* out to code it does not own: a handler of the subscriber, the teardown  *)
(* returned by the producer, or the producer itself.  While such a         *)
(* callback is running it may call the handle's unsubscribe(), or cause    *)
(* the producer to call its Observer again (a handler that emits the event *)
(* the producer listens to); when it returns, the interrupted method       *)
(* continues.  A producer given to the constructor may also call its       *)
(* Observer after subscribe has returned (from a timer or a listener).     *)
(***************************************************************************)
EXTENDS Integers, Sequences, FiniteSets, TLC

\* ---------------------------------------------------------------- bounds
MaxLen   == 3      \* longest array given to Observable.from
MaxCalls == 4      \* calls that producers and callbacks make, one subscription
MaxCallsTwo == 2   \* the same, in the runs with two subscriptions
MaxDepth == 2      \* frames of callbacks nested on the call stack

SubIds == {1, 2}   \* two subscriptions are made on the one Observable
Values == {1, 2}   \* payloads of next
Errors == {7}      \* payloads of error
NoVal  == 0        \* complete, unsubscribe and the teardown carry no payload

HandlerKinds == {"next", "error", "complete"}

\* Sequences over S of length 0..n
RECURSIVE SeqsUpTo(_, _)
SeqsUpTo(S, n) ==
  IF n = 0 THEN {<<>>}
  ELSE LET shorter == SeqsUpTo(S, n - 1)
       IN  shorter \cup {Append(q, x) : q \in {r \in shorter : Len(r) = n - 1}, x \in S}

\* An event of a subscription: a call made on its Observer, or a callback
\* the Observer invoked.
Ev(k, v) == [k |-> k, v |-> v]

\* A callback in progress on the call stack.
\*   kind "from"     the producer built by Observable.from, at forEach index idx
\*   kind "producer" a producer given to the Observable constructor
\*   kind "handler"  handlers[which] of the subscription
\*   kind "teardown" the function stored in _unsubscribe
Frame(s, kind, which, idx) == [sub |-> s, kind |-> kind, which |-> which, idx |-> idx]

VARIABLES
  source,          \* the Observable: [kind |-> "from", values |-> S] or [kind |-> "custom"]
  created,         \* created[s]: new Observer(handlers) has run for subscription s
  handlers,        \* Observer.handlers: the set of callbacks supplied
  isUnsubscribed,  \* Observer.isUnsubscribed
  teardownFn,      \* Observer._unsubscribe: "unset" (undefined) or "fn"
  handle,          \* handle[s]: subscribe has returned the { unsubscribe } handle
  thrown,          \* thrown[s]: the producer of s threw
  stack,           \* the call stack of callbacks in progress, innermost last
  log,             \* log[s]: handler and teardown invocations, in order
  calls,           \* calls[s]: next/error/complete/unsubscribe calls made, in order
  made,            \* calls made so far by producers given to the constructor and by callbacks
  reentered,       \* some call was made from inside a running handler or teardown
  fault,           \* a call of an undefined value happened (TypeError)
  actor            \* the subscription the last step operated on

vars == <<source, created, handlers, isUnsubscribed, teardownFn, handle, thrown,
          stack, log, calls, made, reentered, fault, actor>>

Top == stack[Len(stack)]
Pop == SubSeq(stack, 1, Len(stack) - 1)

TypeOK ==
  /\ source \in [kind : {"from"}, values : SeqsUpTo(Values, MaxLen)] \cup [kind : {"custom"}]
  /\ created \in [SubIds -> BOOLEAN]
  /\ handlers \in [SubIds -> SUBSET HandlerKinds]
  /\ isUnsubscribed \in [SubIds -> BOOLEAN]
  /\ teardownFn \in [SubIds -> {"unset", "fn"}]
  /\ handle \in [SubIds -> BOOLEAN]
  /\ thrown \in [SubIds -> BOOLEAN]
  /\ fault \in BOOLEAN
  /\ made \in 0..MaxCalls
  /\ reentered \in BOOLEAN
  /\ actor \in SubIds

\* ------------------------------------------------------------- Observer

\* constructor(handlers): lines 15-18
Observer(s, h) ==
  /\ created' = [created EXCEPT ![s] = TRUE]
  /\ handlers' = [handlers EXCEPT ![s] = h]
  /\ isUnsubscribed' = [isUnsubscribed EXCEPT ![s] = FALSE]

\* this.handlers.k(v): the handler is entered; calling an absent handler is a
\* TypeError.
CallHandler(s, k, v, stk) ==
  IF k \in handlers[s]
    THEN /\ log' = [log EXCEPT ![s] = Append(@, Ev(k, v))]
         /\ stack' = Append(stk, Frame(s, "handler", k, 0))
         /\ fault' = fault
    ELSE /\ log' = log
         /\ stack' = stk
         /\ fault' = TRUE

\* this._unsubscribe(): the teardown is entered.  The teardown of from only
\* logs (line 65) and returns at once; any other teardown is a callback.
CallTeardown(s, stk) ==
  /\ log' = [log EXCEPT ![s] = Append(@, Ev("teardown", NoVal))]
  /\ stack' = IF source.kind = "custom"
                THEN Append(stk, Frame(s, "teardown", "-", 0))
                ELSE stk

\* (mutant) next does not look at isUnsubscribed
NextGuardIgnoringFlag(s) == "next" \in handlers[s]

\* line 21: if (this.handlers.next && !this.isUnsubscribed)
NextGuard(s) == "next" \in handlers[s] /\ ~isUnsubscribed[s]

\* lines 27, 36: if (!this.isUnsubscribed)
TerminalGuard(s) == ~isUnsubscribed[s]

\* (mutant) error and complete call their handler without testing it
HandlerGuardOmitted(s, k) == TRUE

\* lines 28, 37: if (this.handlers.error) / if (this.handlers.complete)
HandlerGuard(s, k) == k \in handlers[s]

\* (mutant) the teardown is run only by the call that terminates the Observer
TeardownGuardWhileActive(s) == teardownFn[s] = "fn" /\ ~isUnsubscribed[s]

\* line 46: if (this._unsubscribe)
TeardownGuard(s) == teardownFn[s] = "fn"

\* (mutant) the flag is one field shared by all Observers
SetUnsubscribedShared(s) == [t \in SubIds |-> TRUE]

\* (mutant) unsubscribe flips the flag
SetUnsubscribedToggle(s) == [isUnsubscribed EXCEPT ![s] = ~@]

\* line 45: this.isUnsubscribed = true
SetUnsubscribed(s) == [isUnsubscribed EXCEPT ![s] = TRUE]

\* unsubscribe(): lines 44-49
unsubscribe(s, stk) ==
  /\ isUnsubscribed' = SetUnsubscribed(s)
  /\ IF TeardownGuard(s)
       THEN CallTeardown(s, stk)
       ELSE /\ log' = log
            /\ stack' = stk
  /\ fault' = fault

\* (mutant) error and complete set the flag before they call the handler
terminalFlagFirst(s, k, v, stk) ==
  IF TerminalGuard(s)
    THEN IF HandlerGuard(s, k)
           THEN /\ CallHandler(s, k, v, stk)
                /\ isUnsubscribed' = SetUnsubscribed(s)
           ELSE unsubscribe(s, stk)
    ELSE /\ log' = log
         /\ stack' = stk
         /\ fault' = fault
         /\ isUnsubscribed' = isUnsubscribed

\* (mutant) error and complete call this.unsubscribe() before the handler
terminalUnsubscribesFirst(s, k, v, stk) ==
  IF TerminalGuard(s)
    THEN /\ isUnsubscribed' = SetUnsubscribed(s)
         /\ log' = [log EXCEPT ![s] =
                      (IF TeardownGuard(s) THEN Append(@, Ev("teardown", NoVal)) ELSE @)
                      \o (IF HandlerGuard(s, k) THEN <<Ev(k, v)>> ELSE <<>>)]
         /\ stack' = IF HandlerGuard(s, k) THEN Append(stk, Frame(s, "handler", "next", 0)) ELSE stk
         /\ fault' = fault
    ELSE /\ log' = log
         /\ stack' = stk
         /\ fault' = fault
         /\ isUnsubscribed' = isUnsubscribed

\* error(error) and complete(): lines 26-33 and 35-42, up to the handler call.
\* With a handler, the method is suspended inside it and goes on to line 31/40
\* in handlerReturn; without one it goes on to this.unsubscribe() at once.
terminal(s, k, v, stk) ==
  IF TerminalGuard(s)
    THEN IF HandlerGuard(s, k)
           THEN /\ CallHandler(s, k, v, stk)
                /\ isUnsubscribed' = isUnsubscribed
           ELSE unsubscribe(s, stk)
    ELSE /\ log' = log
         /\ stack' = stk
         /\ fault' = fault
         /\ isUnsubscribed' = isUnsubscribed

error(s, e, stk) == terminal(s, "error", e, stk)

\* (mutant) next is written like error: handler if supplied, then unsubscribe
nextLikeError(s, v, stk) == terminal(s, "next", v, stk)

complete(s, stk) == terminal(s, "complete", NoVal, stk)

\* next(value): lines 20-24
next(s, v, stk) ==
  /\ IF NextGuard(s)
       THEN CallHandler(s, "next", v, stk)
       ELSE /\ log' = log
            /\ stack' = stk
            /\ fault' = fault
  /\ isUnsubscribed' = isUnsubscribed

\* ----------------------------------------------------------- Observable

Init ==
  /\ source \in [kind : {"from"}, values : SeqsUpTo(Values, MaxLen)] \cup [kind : {"custom"}]
  /\ created = [s \in SubIds |-> FALSE]
  /\ handlers = [s \in SubIds |-> {}]
  /\ isUnsubscribed = [s \in SubIds |-> FALSE]
  /\ teardownFn = [s \in SubIds |-> "unset"]
  /\ handle = [s \in SubIds |-> FALSE]
  /\ thrown = [s \in SubIds |-> FALSE]
  /\ stack = <<>>
  /\ log = [s \in SubIds |-> <<>>]
  /\ calls = [s \in SubIds |-> <<>>]
  /\ made = 0
  /\ reentered = FALSE
  /\ fault = FALSE
  /\ actor = 1

\* (mutant) the Observer has its teardown before the producer is called
subscribeTeardownFirst(s, h) ==
  /\ stack = <<>>
  /\ ~created[s]
  /\ \A t \in SubIds : t < s => created[t]
  /\ Observer(s, h)
  /\ teardownFn' = [teardownFn EXCEPT ![s] = "fn"]
  /\ stack' = <<Frame(s, IF source.kind = "from" THEN "from" ELSE "producer", "-", 1)>>
  /\ actor' = s
  /\ UNCHANGED <<source, handle, thrown, log, calls, made, reentered, fault>>

\* subscribe(handlers), line 71 and the entry into this._subscribe(observer) of
\* line 72.  Subscriptions are made from top-level code, one after the other.
subscribe(s, h) ==
  /\ stack = <<>>
  /\ ~created[s]
  /\ \A t \in SubIds : t < s => created[t]
  /\ Observer(s, h)
  /\ stack' = <<Frame(s, IF source.kind = "from" THEN "from" ELSE "producer", "-", 1)>>
  /\ actor' = s
  /\ UNCHANGED <<source, teardownFn, handle, thrown, log, calls, made, reentered, fault>>

\* (mutant) forEach walks the array from the end
FromValueReversed(idx) == source.values[Len(source.values) + 1 - idx]

\* values[idx] as forEach hands it to the callback (line 61)
FromValue(idx) == source.values[idx]

\* from, line 61: one round of values.forEach((value) => observer.next(value))
fromNext(s) ==
  /\ stack # <<>>
  /\ Top.kind = "from" /\ Top.sub = s
  /\ Top.idx <= Len(source.values)
  /\ calls' = [calls EXCEPT ![s] = Append(@, Ev("next", FromValue(Top.idx)))]
  /\ next(s, FromValue(Top.idx), Append(Pop, [Top EXCEPT !.idx = @ + 1]))
  /\ actor' = s
  /\ UNCHANGED <<source, created, handlers, teardownFn, handle, thrown, made, reentered>>

\* from, line 62: observer.complete()
fromComplete(s) ==
  /\ stack # <<>>
  /\ Top.kind = "from" /\ Top.sub = s
  /\ Top.idx = Len(source.values) + 1
  /\ calls' = [calls EXCEPT ![s] = Append(@, Ev("complete", NoVal))]
  /\ complete(s, Append(Pop, [Top EXCEPT !.idx = @ + 1]))
  /\ actor' = s
  /\ UNCHANGED <<source, created, handlers, teardownFn, handle, thrown, made, reentered>>

\* The producer is at its return statement.
ProducerDone(s) ==
  /\ stack # <<>>
  /\ Top.sub = s
  /\ \/ Top.kind = "producer"
     \/ Top.kind = "from" /\ Top.idx = Len(source.values) + 2

\* What a producer may return: from returns a function (lines 64-66); a
\* producer given to the constructor returns a function or nothing.
Returnable == IF source.kind = "from" THEN {"fn"} ELSE {"fn", "unset"}

\* line 72: observer._unsubscribe = <the producer's return value>
SetTeardown(s, t) == [teardownFn EXCEPT ![s] = t]

\* subscribe, the rest of line 72 and lines 74-78: the producer returns t, it
\* is stored as the teardown and the handle is returned.
producerReturn(s, t) ==
  /\ ProducerDone(s)
  /\ t \in Returnable
  /\ teardownFn' = SetTeardown(s, t)
  /\ handle' = [handle EXCEPT ![s] = TRUE]
  /\ stack' = Pop
  /\ actor' = s
  /\ UNCHANGED <<source, created, handlers, isUnsubscribed, thrown, log, calls, made, reentered, fault>>

\* (mutant) subscribe catches what the producer throws, hands it to
\* observer.error and returns the handle
producerThrowCaught(s) ==
  /\ stack # <<>>
  /\ Top.kind = "producer" /\ Top.sub = s
  /\ thrown' = [thrown EXCEPT ![s] = TRUE]
  /\ \E e \in Errors : error(s, e, Pop)
  /\ handle' = [handle EXCEPT ![s] = TRUE]
  /\ actor' = s
  /\ UNCHANGED <<source, created, handlers, teardownFn, calls, made, reentered>>

\* subscribe, line 72 when this._subscribe(observer) throws: there is no
\* try/catch, so neither the assignment nor the return of lines 74-78 happens.
producerThrow(s) ==
  /\ stack # <<>>
  /\ Top.kind = "producer" /\ Top.sub = s
  /\ thrown' = [thrown EXCEPT ![s] = TRUE]
  /\ stack' = Pop
  /\ actor' = s
  /\ UNCHANGED <<source, created, handlers, isUnsubscribed, teardownFn, handle, log, calls,
                 made, reentered, fault>>

\* ---------------------------------------------------------- environment

\* Code outside the Observer is running: top-level code (or a timer the
\* producer registered), the producer, a handler or a teardown.
EnvTurn == IF stack = <<>> THEN TRUE ELSE Top.kind \in {"producer", "handler", "teardown"}

\* A handler or a teardown is running.
InCallback == IF stack = <<>> THEN FALSE ELSE Top.kind \in {"handler", "teardown"}

\* The Observer of s can be reached by a caller: only a producer given to the
\* constructor has it, from when it is called; a producer that threw is gone.
Reach(s) == source.kind = "custom" /\ created[s] /\ ~thrown[s]

MayCall(s, b) ==
  /\ EnvTurn
  /\ made < b
  /\ Len(stack) < MaxDepth

\* observer.next(v), called by the producer or by a callback
callNext(s, v, b) ==
  /\ MayCall(s, b) /\ Reach(s)
  /\ calls' = [calls EXCEPT ![s] = Append(@, Ev("next", v))]
  /\ next(s, v, stack)
  /\ made' = made + 1
  /\ reentered' = (reentered \/ InCallback)
  /\ actor' = s
  /\ UNCHANGED <<source, created, handlers, teardownFn, handle, thrown>>

\* observer.error(e)
callError(s, e, b) ==
  /\ MayCall(s, b) /\ Reach(s)
  /\ calls' = [calls EXCEPT ![s] = Append(@, Ev("error", e))]
  /\ error(s, e, stack)
  /\ made' = made + 1
  /\ reentered' = (reentered \/ InCallback)
  /\ actor' = s
  /\ UNCHANGED <<source, created, handlers, teardownFn, handle, thrown>>

\* observer.complete()
callComplete(s, b) ==
  /\ MayCall(s, b) /\ Reach(s)
  /\ calls' = [calls EXCEPT ![s] = Append(@, Ev("complete", NoVal))]
  /\ complete(s, stack)
  /\ made' = made + 1
  /\ reentered' = (reentered \/ InCallback)
  /\ actor' = s
  /\ UNCHANGED <<source, created, handlers, teardownFn, handle, thrown>>

\* the handle's unsubscribe(): lines 75-77
callUnsubscribe(s, b) ==
  /\ MayCall(s, b)
  /\ handle[s]
  /\ calls' = [calls EXCEPT ![s] = Append(@, Ev("unsubscribe", NoVal))]
  /\ unsubscribe(s, stack)
  /\ made' = made + 1
  /\ reentered' = (reentered \/ InCallback)
  /\ actor' = s
  /\ UNCHANGED <<source, created, handlers, teardownFn, handle, thrown>>

\* A handler returns.  error and complete go on to this.unsubscribe() (lines
\* 31 and 40); next has nothing left to do.
handlerReturn ==
  /\ stack # <<>>
  /\ Top.kind = "handler"
  /\ IF Top.which \in {"error", "complete"}
       THEN unsubscribe(Top.sub, Pop)
       ELSE /\ stack' = Pop
            /\ UNCHANGED <<isUnsubscribed, log, fault>>
  /\ actor' = Top.sub
  /\ UNCHANGED <<source, created, handlers, teardownFn, handle, thrown, calls, made, reentered>>

\* The teardown returns into unsubscribe, which returns (line 49).
teardownReturn ==
  /\ stack # <<>>
  /\ Top.kind = "teardown"
  /\ stack' = Pop
  /\ actor' = Top.sub
  /\ UNCHANGED <<source, created, handlers, isUnsubscribed, teardownFn, handle, thrown,
                 log, calls, made, reentered, fault>>

\* The steps of a program that makes the subscriptions S.
NextOn(S, V, b) ==
  \/ \E s \in S, h \in SUBSET HandlerKinds : subscribe(s, h)
  \/ \E s \in S : fromNext(s)
  \/ \E s \in S : fromComplete(s)
  \/ \E s \in S, t \in {"fn", "unset"} : producerReturn(s, t)
  \/ \E s \in S : producerThrow(s)
  \/ \E s \in S, v \in V : callNext(s, v, b)
  \/ \E s \in S, e \in Errors : callError(s, e, b)
  \/ \E s \in S : callComplete(s, b)
  \/ \E s \in S : callUnsubscribe(s, b)
  \/ handlerReturn
  \/ teardownReturn

\* One subscription.
Next == NextOn({1}, Values, MaxCalls)

Spec == Init /\ [][Next]_vars

\* Two subscriptions to the same Observable.
NextTwo == NextOn(SubIds, {1}, MaxCallsTwo)

SpecTwo == Init /\ [][NextTwo]_vars

\* ------------------------------------------------------------ observers

\* The handler invocations of s, in order.
HandlerLog(s) == SelectSeq(log[s], LAMBDA e : e.k \in HandlerKinds)

\* How many times the teardown of s has run.
TeardownRuns(s) == Len(SelectSeq(log[s], LAMBDA e : e.k = "teardown"))

\* How many times unsubscribe() has been called on the handle of s.
UnsubscribeCalls(s) == Len(SelectSeq(calls[s], LAMBDA e : e.k = "unsubscribe"))

\* No callback is in progress: every call made so far has returned.
Quiescent == stack = <<>>

\* ---------------------------------------------------------------- C1
\* C1: for a subscription whose producer returned a teardown, calling the
\* handle's unsubscribe() N >= 1 times, one call after the other and nothing
\* else, runs the teardown exactly once in total.
C1_UnsubscribeRunsTeardownOnce ==
  \A s \in SubIds :
    ( /\ Quiescent
      /\ ~reentered
      /\ handle[s]
      /\ teardownFn[s] = "fn"
      /\ UnsubscribeCalls(s) >= 1
      /\ UnsubscribeCalls(s) = Len(calls[s]) )
    => TeardownRuns(s) = 1

\* ---------------------------------------------------------------- C2
\* C2: for every subscription that has reached TERMINATED (by error or
\* complete, also synchronously during subscribe, by the handle's
\* unsubscribe(), or by both), the teardown the producer returned has run
\* exactly once when all calls, none of them made from inside a callback,
\* have returned.
C2_TeardownExactlyOnce ==
  \A s \in SubIds :
    ( /\ Quiescent
      /\ ~reentered
      /\ handle[s]
      /\ teardownFn[s] = "fn"
      /\ isUnsubscribed[s] )
    => TeardownRuns(s) = 1

\* ---------------------------------------------------------------- C3
\* What from(S) delivers to a subscriber that supplied the handlers h: one
\* next per element, in order, then one complete.
RECURSIVE FromEvents(_, _)
FromEvents(S, h) ==
  IF S = <<>>
    THEN IF "complete" \in h THEN <<Ev("complete", NoVal)>> ELSE <<>>
    ELSE (IF "next" \in h THEN <<Ev("next", Head(S))>> ELSE <<>>) \o FromEvents(Tail(S), h)

IsPrefix(p, q) == Len(p) <= Len(q) /\ SubSeq(q, 1, Len(p)) = p

\* C3: from(S).subscribe({next, complete}) invokes next |S| times with the
\* elements of S in order, then complete once, and neither again afterwards,
\* also not after unsubscribe(): while the producer runs the invocations are
\* a prefix of that sequence, and from the return of subscribe on they are
\* exactly that sequence.
C3_FromDeliversAllThenComplete ==
  \A s \in SubIds :
    (source.kind = "from" /\ created[s] /\ handlers[s] = {"next", "complete"})
    => /\ IsPrefix(HandlerLog(s), FromEvents(source.values, handlers[s]))
       /\ handle[s] => HandlerLog(s) = FromEvents(source.values, handlers[s])

\* from([2, 1, ...]) was subscribed with {next, complete}, delivered
\* everything and was unsubscribed afterwards.
C3_Witness ==
  /\ source.kind = "from"
  /\ Len(source.values) = MaxLen
  /\ source.values[1] = 2 /\ source.values[2] = 1
  /\ handlers[1] = {"next", "complete"}
  /\ handle[1]
  /\ Len(HandlerLog(1)) = MaxLen + 1
  /\ UnsubscribeCalls(1) >= 1

\* ---------------------------------------------------------------- C4
TerminalKinds == {"error", "complete"}

\* C4: once error or complete has fired, no later next, error or complete
\* call invokes a handler or raises anything: a terminal handler invocation
\* is the last handler invocation of its subscription, so at most one
\* terminal handler is ever invoked.
C4_NothingAfterTerminal ==
  /\ ~fault
  /\ \A s \in SubIds :
       \A i \in 1..Len(HandlerLog(s)) :
         HandlerLog(s)[i].k \in TerminalKinds => i = Len(HandlerLog(s))

\* ---------------------------------------------------------------- C5
UnsubscribeCalled(s) == UnsubscribeCalls(s) >= 1

\* C5: after unsubscribe() has been called on a subscription, at any point,
\* no step invokes a handler of that subscription any more.
C5_NoDeliveryAfterUnsubscribe ==
  [][\A s \in SubIds : UnsubscribeCalled(s) => HandlerLog(s)' = HandlerLog(s)]_vars

\* unsubscribe() was called from inside a next callback, and the producer
\* went on to call next and a terminal method whose handlers were supplied.
C5_Witness ==
  /\ handlers[1] = HandlerKinds
  /\ Len(calls[1]) >= 4
  /\ calls[1][1].k = "next"
  /\ calls[1][2].k = "unsubscribe"
  /\ calls[1][3].k = "next"
  /\ calls[1][4].k \in TerminalKinds
  /\ reentered
  /\ Len(HandlerLog(1)) = 1
  /\ Quiescent

\* ---------------------------------------------------------------- C6
Last(q) == q[Len(q)]

\* The call that this step makes on the Observer of s, if it makes one.
CallMade(s) == Len(calls'[s]) = Len(calls[s]) + 1

\* A terminal call on an ACTIVE Observer whose handler is missing terminates
\* the subscription and runs the teardown, if one is stored; a next call whose
\* handler is missing changes nothing.
MissingHandlerStep(s) ==
  (CallMade(s) /\ Last(calls'[s]).k \in HandlerKinds /\ Last(calls'[s]).k \notin handlers[s])
  => IF Last(calls'[s]).k = "next"
       THEN /\ log'[s] = log[s]
            /\ isUnsubscribed'[s] = isUnsubscribed[s]
            /\ Len(stack') = Len(stack)
       ELSE ~isUnsubscribed[s]
            => /\ isUnsubscribed'[s]
               /\ log'[s] = IF teardownFn[s] = "fn"
                              THEN Append(log[s], Ev("teardown", NoVal))
                              ELSE log[s]

RECURSIVE CutOff(_)
CutOff(q) ==
  IF q = <<>> THEN <<>>
  ELSE IF Head(q).k = "unsubscribe" THEN <<>>
  ELSE IF Head(q).k \in TerminalKinds THEN <<Head(q)>>
  ELSE <<Head(q)>> \o CutOff(Tail(q))

\* C7: with all three handlers supplied, the handler invocations of a
\* subscription are the calls made on it, in order and with their payloads,
\* cut off after the first terminal call or at the first unsubscribe.
C7_DeliveryFollowsCalls ==
  \A s \in SubIds :
    (created[s] /\ handlers[s] = HandlerKinds) => HandlerLog(s) = CutOff(calls[s])

\* ---------------------------------------------------------------- C8
\* Everything that belongs to subscription s.
Private(s) ==
  <<created[s], handlers[s], isUnsubscribed[s], teardownFn[s], handle[s], thrown[s],
    log[s], calls[s]>>

\* A step on one subscription leaves every other subscription as it was.
OthersUnchanged == \A s \in SubIds : s # actor' => Private(s)' = Private(s)

\* subscribe builds a fresh Observer and calls the producer once with it.
FreshObserver ==
  \A s \in SubIds :
    (~created[s] /\ created'[s])
    => /\ ~isUnsubscribed'[s]
       /\ teardownFn'[s] = "unset"
       /\ log'[s] = <<>>
       /\ Len(stack') = 1
       /\ stack'[1].sub = s
       /\ stack'[1].kind \in {"from", "producer"}

\* Every subscription to from(S) receives all of S and then complete,
\* whatever happened to the other subscriptions before.
NoReplayLoss ==
  \A s \in SubIds :
    (source.kind = "from" /\ handle[s])
    => HandlerLog(s) = FromEvents(source.values, handlers[s])

\* C8: two subscriptions to the same Observable are independent: each
\* subscribe calls the producer once with a fresh Observer, a step on one
\* subscription leaves the other's flag, teardown and deliveries unchanged,
\* and a subscription to from(S) made after another one terminated still
\* receives all of S and then complete.
C8_SubscriptionsIndependent ==
  /\ []NoReplayLoss
  /\ [][OthersUnchanged /\ FreshObserver]_vars

\* The first subscription to from(S) completed, was unsubscribed and ran its
\* teardown; the second, made afterwards, received all of S and complete and
\* its teardown has not run.
C8_Witness ==
  /\ source.kind = "from"
  /\ Len(source.values) = MaxLen
  /\ handle[1] /\ handle[2]
  /\ calls[1][Len(calls[1])].k = "unsubscribe"
  /\ TeardownRuns(1) = 1
  /\ handlers[2] = HandlerKinds
  /\ Len(HandlerLog(2)) = MaxLen + 1
  /\ TeardownRuns(2) = 0
  /\ UnsubscribeCalls(2) = 0

C10_UnsubscribedIsMonotonic ==
  /\ [](\A s \in SubIds : ~created[s] => ~isUnsubscribed[s])
  /\ [][\A s \in SubIds :
          /\ (~created[s] /\ created'[s]) => ~isUnsubscribed'[s]
          /\ isUnsubscribed[s] => isUnsubscribed'[s]]_vars

\* The Observer completed inside the producer; next, error and unsubscribe
\* were called afterwards, and the teardown was stored after termination.
C10_Witness ==
  /\ isUnsubscribed[1]
  /\ teardownFn[1] = "fn"
  /\ Len(calls[1]) = 4
  /\ calls[1][1].k = "complete"
  /\ calls[1][2].k = "next"
  /\ calls[1][3].k = "error"
  /\ calls[1][4].k = "unsubscribe"
  /\ Quiescent

\* --------------------------------------------------------------- C11
\* The teardown of s is executing: its frame is on the call stack.
TeardownRunning(s) ==
  \E i \in 1..Len(stack) : stack[i].sub = s /\ stack[i].kind = "teardown"

\* C11: an unsubscribe() call made on a subscription while its teardown is
\* executing (by the teardown, or by a callback it triggers) does not run the
\* teardown a second time.
C11_ReentrantUnsubscribeRunsNoTeardown ==
  [][\A s \in SubIds :
       (TeardownRunning(s) /\ CallMade(s) /\ Last(calls'[s]).k = "unsubscribe")
       => TeardownRuns(s)' = TeardownRuns(s)]_vars

\* --------------------------------------------------------------- C12
\* This step is error or complete called on the ACTIVE Observer of s, with
\* the handler supplied: the handler is entered with the payload of the call,
\* and the Observer is still ACTIVE and its teardown has not run.
TerminalHandlerFirst(s) ==
  ( /\ CallMade(s)
    /\ Last(calls'[s]).k \in TerminalKinds
    /\ Last(calls'[s]).k \in handlers[s]
    /\ ~isUnsubscribed[s] )
  => /\ log'[s] = Append(log[s], Last(calls'[s]))
     /\ ~isUnsubscribed'[s]
     /\ Len(stack') = Len(stack) + 1
     /\ Last(stack') = Frame(s, "handler", Last(calls'[s]).k, 0)

\* This step is the return of a terminal handler: only now is the Observer
\* set unsubscribed and the teardown, if stored, run.
TeardownAfterHandler ==
  IF stack = <<>> THEN TRUE
  ELSE ( /\ Top.kind = "handler"
         /\ Top.which \in TerminalKinds
         /\ calls' = calls )
       => /\ isUnsubscribed'[Top.sub]
          /\ log'[Top.sub] = IF teardownFn[Top.sub] = "fn"
                               THEN Append(log[Top.sub], Ev("teardown", NoVal))
                               ELSE log[Top.sub]

\* C12: on an ACTIVE Observer error(err) / complete() first invokes the
\* handler, if supplied, with the payload unchanged, and only when it has
\* returned sets the Observer unsubscribed and runs the teardown.
C12_HandlerBeforeTeardown ==
  [][(\A s \in SubIds : TerminalHandlerFirst(s)) /\ TeardownAfterHandler]_vars

\* error(7) was called after subscribe returned a stored teardown: the error
\* handler got 7, then the teardown ran.
C12_Witness ==
  /\ teardownFn[1] = "fn"
  /\ calls[1] = <<Ev("error", 7)>>
  /\ log[1] = <<Ev("error", 7), Ev("teardown", NoVal)>>
  /\ isUnsubscribed[1]
  /\ Quiescent

\* --------------------------------------------------------------- C13
\* This step is next called on the Observer of s: it invokes the next
\* handler, once and with the payload, iff the handler was supplied and the
\* Observer is ACTIVE, and changes nothing else.
NextCallStep(s) ==
  (CallMade(s) /\ Last(calls'[s]).k = "next")
  => /\ isUnsubscribed' = isUnsubscribed
     /\ teardownFn' = teardownFn
     /\ fault' = fault
     /\ IF "next" \in handlers[s] /\ ~isUnsubscribed[s]
          THEN /\ log'[s] = Append(log[s], Last(calls'[s]))
               /\ Len(stack') = Len(stack) + 1
               /\ Last(stack') = Frame(s, "handler", "next", 0)
          ELSE /\ log' = log
               /\ Len(stack') = Len(stack)

\* This step is the return of a next handler: next returns and does nothing
\* more.
NextReturnStep ==
  IF stack = <<>> THEN TRUE
  ELSE (Top.kind = "handler" /\ Top.which = "next" /\ calls' = calls)
       => /\ stack' = Pop
          /\ log' = log
          /\ isUnsubscribed' = isUnsubscribed
          /\ teardownFn' = teardownFn

\* C13: a next call never changes isUnsubscribed, never runs the teardown
\* and never invokes the error or complete handler; it invokes the next
\* handler exactly once iff that handler was supplied and the Observer is
\* ACTIVE, and otherwise has no effect.
C13_NextIsSelfLoop ==
  [][(\A s \in SubIds : NextCallStep(s)) /\ NextReturnStep]_vars

\* next(1) was delivered and returned while ACTIVE with a teardown stored;
\* after complete, next(2) was dropped.
C13_Witness ==
  /\ handlers[1] = HandlerKinds
  /\ teardownFn[1] = "fn"
  /\ calls[1] = <<Ev("next", 1), Ev("complete", NoVal), Ev("next", 2)>>
  /\ log[1] = <<Ev("next", 1), Ev("complete", NoVal), Ev("teardown", NoVal)>>
  /\ Quiescent

\* --------------------------------------------------------------- C14
\* subscribe is inside the producer of s: this._subscribe(observer) on line
\* 72 has been called and has neither returned nor thrown.
Producing(s) == created[s] /\ ~handle[s] /\ ~thrown[s]

\* While the producer runs no teardown is stored, so none has run, whatever
\* the producer called.
NoTeardownWhileProducing ==
  \A s \in SubIds :
    (Producing(s) \/ thrown[s]) => (teardownFn[s] = "unset" /\ TeardownRuns(s) = 0)

\* This step stores the producer's return value: no teardown has run by
\* then, and for from the Observer it is stored on is already TERMINATED.
TeardownStoredLate ==
  \A s \in SubIds :
    (~handle[s] /\ handle'[s])
    => /\ TeardownRuns(s)' = 0
       /\ source.kind = "from" => (isUnsubscribed[s] /\ teardownFn'[s] = "fn")

\* C14: during the synchronous run of the producer the teardown is unset,
\* so error/complete called inside the producer terminates the Observer
\* without running a teardown, and the teardown is stored afterwards, for
\* every from(S) subscription on an Observer that is already TERMINATED.
C14_TeardownUnsetDuringProducer ==
  /\ []NoTeardownWhileProducing
  /\ [][TeardownStoredLate]_vars

\* from(S) completed inside subscribe with the complete handler supplied;
\* subscribe has returned, the teardown is stored and has not run.
C14_Witness ==
  /\ source.kind = "from"
  /\ Len(source.values) = MaxLen
  /\ "complete" \in handlers[1]
  /\ handle[1]
  /\ isUnsubscribed[1]
  /\ teardownFn[1] = "fn"
  /\ TeardownRuns(1) = 0
  /\ Last(calls[1]).k = "complete"

\* --------------------------------------------------------------- C15
\* The terminal handlers of s that are running.
TerminalFrames(s) ==
  {i \in 1..Len(stack) :
     stack[i].sub = s /\ stack[i].kind = "handler" /\ stack[i].which \in TerminalKinds}

\* The terminal handler invocations of s so far.
TerminalEvents(s) == {i \in 1..Len(log[s]) : log[s][i].k \in TerminalKinds}

\* No terminal handler of s has returned yet, and nothing else has
\* terminated s: no unsubscribe() call and no terminal call without handler.
NoTerminalReturnYet(s) ==
  /\ Cardinality(TerminalEvents(s)) = Cardinality(TerminalFrames(s))
  /\ UnsubscribeCalls(s) = 0
  /\ \A i \in 1..Len(calls[s]) : calls[s][i].k \in TerminalKinds => calls[s][i].k \in handlers[s]

\* The Observer stays ACTIVE until a terminal handler has returned.
ActiveInTerminalHandler == \A s \in SubIds : NoTerminalReturnYet(s) => ~isUnsubscribed[s]

\* This step is a call made on the ACTIVE Observer of s from inside its
\* running terminal handler, for a handler that was supplied: it is
\* delivered.
ReentrantCallDelivered(s) ==
  IF stack = <<>> THEN TRUE
  ELSE ( /\ Top.kind = "handler" /\ Top.which \in TerminalKinds /\ Top.sub = s
         /\ CallMade(s)
         /\ Last(calls'[s]).k \in handlers[s]
         /\ ~isUnsubscribed[s] )
       => log'[s] = Append(log[s], Last(calls'[s]))

\* C15: a terminal handler runs while the Observer is still ACTIVE, the flag
\* being set only after it returns, so a next, error or complete call made
\* on the same Observer from inside the running terminal handler is still
\* delivered to its handler.
C15_ReentrantCallsInTerminalHandlerDelivered ==
  /\ []ActiveInTerminalHandler
  /\ [][\A s \in SubIds : ReentrantCallDelivered(s)]_vars

\* complete() entered the complete handler; from inside it next(1) was
\* called and delivered: both handlers are running and the Observer is
\* ACTIVE.
C15_Witness ==
  /\ calls[1] = <<Ev("complete", NoVal), Ev("next", 1)>>
  /\ log[1] = <<Ev("complete", NoVal), Ev("next", 1)>>
  /\ Len(stack) = 2
  /\ stack[1] = Frame(1, "handler", "complete", 0)
  /\ stack[2] = Frame(1, "handler", "next", 0)
  /\ ~isUnsubscribed[1]

\* --------------------------------------------------------------- C16
\* requestsMock (lines 114-128): two different requests, in array order.
requestsMock == <<1, 2>>

\* The module's own run, lines 147-153: from(requestsMock) subscribed with
\* handleRequest, handleError and handleComplete.
TopLevelRun ==
  /\ source = [kind |-> "from", values |-> requestsMock]
  /\ handlers[1] = HandlerKinds

\* What the run has invoked when subscribe has returned.
DeliveredByRun ==
  <<Ev("next", requestsMock[1]), Ev("next", requestsMock[2]), Ev("complete", NoVal)>>

\* C16: the top-level run invokes next twice, in array order, then complete
\* once and never error; the teardown of from has not run when subscribe
\* returns and runs exactly once, in the one subscription.unsubscribe() of
\* line 155.
C16_TopLevelRun ==
  (TopLevelRun /\ handle[1])
  => /\ UnsubscribeCalls(1) = 0 => log[1] = DeliveredByRun
     /\ UnsubscribeCalls(1) = 1 => log[1] = Append(DeliveredByRun, Ev("teardown", NoVal))

\* The run after line 155.
C16_Witness ==
  /\ TopLevelRun
  /\ handle[1]
  /\ calls[1] = Append(DeliveredByRun, Ev("unsubscribe", NoVal))
  /\ log[1] = Append(DeliveredByRun, Ev("teardown", NoVal))
  /\ Quiescent

====
